---- MODULE Spec2Model ----
(***************************************************************************)
(* Model of the reflective Q-A workflow: src/graphs/workflow.py (the nodes, *)
(* the router and the graph) driven by src/main.py (run_workflow, the       *)
(* thread-keyed checkpointer and the final report).                         *)
(*                                                                          *)
(* A Python string is a sequence of tokens, "" is <<>> and + is \o.  A      *)
(* QAState (TypedDict, total=False) is a function whose DOMAIN is the set   *)
(* of keys that are present.                                                *)
(***************************************************************************)
EXTENDS Integers, Sequences, FiniteSets, TLC

VARIABLES
    store,      \* the checkpointer: thread id -> latest checkpoint (a QAState)
    channels,   \* channel values (the QAState) of the run in progress
    thread,     \* thread id of the current run
    pc,         \* where run_workflow stands
    node,       \* the node that ran last in the current run, "" if none
    runs,       \* invocations of run_workflow so far
    calls,      \* external calls made by the current run, per collaborator
    loaded,     \* what the run found checkpointed for its thread: the
                \* question and the final_answer of the snapshot, if any
    failed,     \* whether the external call of the last node raised
    query,      \* <<query>> of the retrieval call of the current cycle
    retrieved,  \* <<research_data>> formatted by the research step of the cycle
    prompted,   \* <<inputs>> of the generation call of the cycle
    generated,  \* <<draft>> returned by the generation call of the cycle
    shown,      \* <<inputs>> of the critique call of the cycle
    verdicts,   \* is_acceptable of each critique of the run, in order
    rationale,  \* <<reflection>> returned by the last critique of the run
    acceptedEmpty, \* whether the Critic accepted an empty draft in this run
    routed,     \* what route_workflow returned last
    report      \* what run_workflow printed: <<>> or <<summary>>

vars == <<store, channels, thread, pc, node, runs, calls, loaded, failed,
          query, retrieved, prompted, generated, shown, verdicts,
          rationale, acceptedEmpty, routed, report>>

\* ------------------------------------------------------------------ bounds
\* Number of times run_workflow is invoked against the same checkpoint file.
MaxRuns == 2

\* ------------------------------------------------------- program constants
\* max_retries of route_workflow.
max_retries == 3
\* TavilySearchResults(k=3).
top_k == 3

\* ---------------------------------------------------------------- strings
EmptyStr == <<>>
\* Python truthiness of a str.
Truthy(s) == s # EmptyStr

\* What the user can type at the prompt.
Inputs == {EmptyStr, <<"q1">>}
DefaultQuestion == <<"What is the primary function of the LangGraph SqliteSaver checkpointer?">>
\* question = input(...); if not question: question = <default>
AskQuestion(typed) == IF ~Truthy(typed) THEN DefaultQuestion ELSE typed
Questions == {AskQuestion(i) : i \in Inputs}

\* thread_id = hashlib.sha256(question.encode()).hexdigest()[:10]: a
\* deterministic digest of the question text, here one digest per question.
thread_id_of(question) ==
    IF question = DefaultQuestion THEN "3f0a9c11d2" ELSE "b7e2045a6c"
ThreadIds == {thread_id_of(q) : q \in Questions}

\* --------------------------------------------------- external collaborators
\* An external call either returns a value or raises.
Raise == [raised |-> TRUE]
Return(v) == [raised |-> FALSE, value |-> v]

\* Results of tavily_tool.invoke: a list of at most top_k {source, content}.
Snippet(n) == [source |-> <<"url", n>>, content |-> <<"text", n>>]
SearchResults ==
    {r \in {<<>>, <<Snippet("1"), Snippet("2")>>} : Len(r) <= top_k}
\* Content of the completion returned by the draft chain.
Drafts == {EmptyStr, <<"d1">>, <<"d2">>}
\* CritiqueSchema instances returned by the structured chain.
Reflections == {EmptyStr, <<"r1">>}
Critiques == [is_acceptable : BOOLEAN, reflection : Reflections]

\* -------------------------------------------------------------- the state
\* dict.get(key, default)
Get(d, k, default) == IF k \in DOMAIN d THEN d[k] ELSE default
\* Channel update of the graph: every key of QAState is a last-value
\* channel, so a node's partial update overwrites the keys it returns.
Merge(state, update) == update @@ state
EmptyDict == <<>>
\* The entries of d under the keys of ks.
Restrict(d, ks) == [k \in DOMAIN d \cap ks |-> d[k]]

\* ------------------------------------------------------------------ nodes
\* A node returns [raised |-> TRUE] when a call or a key lookup raises, and
\* its partial state update otherwise.

FormatResult(i, r) ==
    <<"Source ", ToString(i), " (">> \o r.source \o <<"): ">> \o r.content

RECURSIVE JoinResults(_, _)
\* "\n\n".join([... for i, r in enumerate(search_results)]), from item i on
JoinResults(results, i) ==
    IF i > Len(results) THEN EmptyStr
    ELSE FormatResult(i, results[i])
         \o (IF i < Len(results) THEN <<"\n\n">> ELSE EmptyStr)
         \o JoinResults(results, i + 1)

\* Mutant: the reflection is ignored.
search_query_verbatim(state) == state["question"]

\* The query research_node sends to the search tool.
search_query(state) ==
    LET question == state["question"]
        reflection == Get(state, "reflection", EmptyStr)
    IN  IF Truthy(reflection)
        THEN <<"Based on this critique: '">> \o reflection
             \o <<"', refine the search query for: ">> \o question
        ELSE question

\* Mutant: a failed search is swallowed and treated as an empty result.
research_node_swallow(state, search) ==
    IF "question" \notin DOMAIN state THEN Raise
    ELSE Return(("research_data" :>
                   (IF search.raised THEN EmptyStr
                    ELSE JoinResults(search.value, 1)))
                @@ ("retry_count" :> Get(state, "retry_count", 0) + 1))

\* Mutant: the retry counter is not incremented.
research_node_noinc(state, search) ==
    IF "question" \notin DOMAIN state \/ search.raised THEN Raise
    ELSE Return(("research_data" :> JoinResults(search.value, 1))
                @@ ("retry_count" :> Get(state, "retry_count", 0)))

research_node(state, search) ==
    IF "question" \notin DOMAIN state \/ search.raised THEN Raise
    ELSE Return(("research_data" :> JoinResults(search.value, 1))
                @@ ("retry_count" :> Get(state, "retry_count", 0) + 1))

\* Mutant: a draft_answer already in the state is kept.
generate_answer_node_keep(state, completion) ==
    IF "question" \notin DOMAIN state \/ "research_data" \notin DOMAIN state
       \/ completion.raised
    THEN Raise
    ELSE IF "draft_answer" \in DOMAIN state THEN Return(EmptyDict)
    ELSE Return("draft_answer" :> completion.value)

\* Mutant: a missing research_data is read as "" instead of raising.
generate_answer_node_default(state, completion) ==
    IF "question" \notin DOMAIN state \/ completion.raised
    THEN Raise
    ELSE Return("draft_answer" :> completion.value)

generate_answer_node(state, completion) ==
    IF "question" \notin DOMAIN state \/ "research_data" \notin DOMAIN state
       \/ completion.raised
    THEN Raise
    ELSE Return("draft_answer" :> completion.value)

\* The draft_answer written by the rejection branch.
RefinedDraft(reflection, draft) ==
    <<"Refinement needed based on critique: ">> \o reflection
    \o <<"\n\nPrevious Draft:\n">> \o draft

\* Mutant: the rejection branch also resets final_answer.
critique_answer_node_resetfinal(state, critique) ==
    IF {"question", "research_data", "draft_answer"} \ DOMAIN state # {}
       \/ critique.raised
    THEN Raise
    ELSE IF critique.value.is_acceptable
         THEN Return(("final_answer" :> state["draft_answer"])
                     @@ ("reflection" :> critique.value.reflection))
         ELSE Return(("reflection" :> critique.value.reflection)
                     @@ ("final_answer" :> EmptyStr)
                     @@ ("draft_answer" :>
                           RefinedDraft(critique.value.reflection,
                                        state["draft_answer"])))

\* Mutant: the rejection branch leaves the previous draft out.
critique_answer_node_noprevious(state, critique) ==
    IF {"question", "research_data", "draft_answer"} \ DOMAIN state # {}
       \/ critique.raised
    THEN Raise
    ELSE IF critique.value.is_acceptable
         THEN Return(("final_answer" :> state["draft_answer"])
                     @@ ("reflection" :> critique.value.reflection))
         ELSE Return(("reflection" :> critique.value.reflection)
                     @@ ("draft_answer" :>
                           RefinedDraft(critique.value.reflection, EmptyStr)))

\* Mutant: the rejection branch returns the reflection only.
critique_answer_node_norewrite(state, critique) ==
    IF {"question", "research_data", "draft_answer"} \ DOMAIN state # {}
       \/ critique.raised
    THEN Raise
    ELSE IF critique.value.is_acceptable
         THEN Return(("final_answer" :> state["draft_answer"])
                     @@ ("reflection" :> critique.value.reflection))
         ELSE Return("reflection" :> critique.value.reflection)

critique_answer_node(state, critique) ==
    IF {"question", "research_data", "draft_answer"} \ DOMAIN state # {}
       \/ critique.raised
    THEN Raise
    ELSE IF critique.value.is_acceptable
         THEN Return(("final_answer" :> state["draft_answer"])
                     @@ ("reflection" :> critique.value.reflection))
         ELSE Return(("reflection" :> critique.value.reflection)
                     @@ ("draft_answer" :>
                           RefinedDraft(critique.value.reflection,
                                        state["draft_answer"])))

END == "__end__"

\* Mutant: final_answer is tested for presence instead of truthiness.
route_workflow_present(state) ==
    IF "final_answer" \in DOMAIN state THEN END
    ELSE IF Get(state, "retry_count", 0) >= max_retries THEN END
    ELSE "research"

\* Mutant: the loop goes back to the generate node.
route_workflow_togenerate(state) ==
    IF Truthy(Get(state, "final_answer", EmptyStr)) THEN END
    ELSE IF Get(state, "retry_count", 0) >= max_retries THEN END
    ELSE "generate"

\* Mutant: the ceiling test is > instead of >=.
route_workflow_gt(state) ==
    IF Truthy(Get(state, "final_answer", EmptyStr)) THEN END
    ELSE IF Get(state, "retry_count", 0) > max_retries THEN END
    ELSE "research"

route_workflow(state) ==
    IF Truthy(Get(state, "final_answer", EmptyStr)) THEN END
    ELSE IF Get(state, "retry_count", 0) >= max_retries THEN END
    ELSE "research"

\* ---------------------------------------------------------- the final report
Accepted == "Accepted and Finalized"
BestEffort == "Best Draft after Max Retries"
Empty == "Completed"
MissingOutput == <<"Execution Complete (Final Answer Missing)">>

\* Lines 59-80 of run_workflow: status, output and cycles from the final state.
Summary(final_state, tid) ==
    LET final_answer == Get(final_state, "final_answer", EmptyStr)
        final_draft == Get(final_state, "draft_answer", EmptyStr)
    IN  [status |-> IF Truthy(final_answer) THEN Accepted
                    ELSE IF Truthy(final_draft) THEN BestEffort ELSE Empty,
         output |-> IF Truthy(final_answer) THEN final_answer
                    ELSE IF Truthy(final_draft) THEN final_draft
                    ELSE MissingOutput,
         cycles |-> Get(final_state, "retry_count", 0),
         thread_id |-> tid]

\* ------------------------------------------------------------ the machine
NoCalls == [retrieval |-> 0, generation |-> 0, critique |-> 0]

Init ==
    /\ store = [t \in ThreadIds |-> EmptyDict]
    /\ channels = EmptyDict
    /\ thread = thread_id_of(DefaultQuestion)
    /\ pc = "idle"
    /\ node = ""
    /\ runs = 0
    /\ calls = NoCalls
    /\ loaded = EmptyDict
    /\ failed = FALSE
    /\ query = <<>>
    /\ retrieved = <<>>
    /\ prompted = <<>>
    /\ acceptedEmpty = FALSE
    /\ generated = <<>>
    /\ shown = <<>>
    /\ verdicts = <<>>
    /\ rationale = <<>>
    /\ routed = "research"
    /\ report = <<>>

\* initial_state = {"question": question, "retry_count": 0}
initial_state(question) == ("question" :> question) @@ ("retry_count" :> 0)

\* run_workflow up to the first node: the question is read, the thread id is
\* derived, and stream(initial_state, config) writes the input over the
\* thread's latest checkpoint and enters the graph at START -> research.
Start(typed) ==
    LET question == AskQuestion(typed)
        tid == thread_id_of(question)
        entered == Merge(store[tid], initial_state(question))
    IN  /\ pc \in {"idle", "reported", "aborted"}
        /\ runs < MaxRuns
        /\ runs' = runs + 1
        /\ thread' = tid
        /\ loaded' = Restrict(store[tid], {"question", "final_answer"})
        /\ channels' = entered
        /\ store' = [store EXCEPT ![tid] = entered]
        /\ pc' = "research"
        /\ node' = ""
        /\ calls' = NoCalls
        /\ failed' = FALSE
        /\ generated' = <<>>
        /\ shown' = <<>>
        /\ verdicts' = <<>>
        /\ rationale' = <<>>
        /\ routed' = "research"
        /\ report' = <<>>
        /\ query' = <<>>
        /\ retrieved' = <<>>
        /\ prompted' = <<>>
        /\ acceptedEmpty' = FALSE

\* One step of the graph: the node's update is merged into the channels and
\* checkpointed, or the node raised and the exception leaves stream().
Superstep(result, next) ==
    /\ node' = pc
    /\ IF result.raised
       THEN /\ pc' = "aborted"
            /\ UNCHANGED <<channels, store>>
       ELSE /\ channels' = Merge(channels, result.value)
            /\ store' = [store EXCEPT ![thread] = Merge(channels, result.value)]
            /\ pc' = next
    /\ UNCHANGED <<thread, runs, loaded, report>>

Research ==
    /\ pc = "research"
    /\ \E search \in {Raise} \cup {Return(r) : r \in SearchResults} :
          /\ Superstep(research_node(channels, search), "generate")
          /\ query' = <<search_query(channels)>>
          /\ failed' = search.raised
          /\ retrieved' = IF search.raised THEN <<>>
                          ELSE <<JoinResults(search.value, 1)>>
    /\ calls' = [calls EXCEPT !.retrieval = @ + 1]
    /\ prompted' = <<>>
    /\ generated' = <<>>
    /\ shown' = <<>>
    /\ UNCHANGED <<verdicts, rationale, acceptedEmpty, routed>>

\* The arguments of the draft chain: chain.invoke({question, research_data}).
generation_inputs(state) ==
    [question |-> state["question"], research_data |-> state["research_data"]]

Generate ==
    /\ pc = "generate"
    /\ \E completion \in {Raise} \cup {Return(d) : d \in Drafts} :
          LET called == {"question", "research_data"} \subseteq DOMAIN channels
          IN  /\ Superstep(generate_answer_node(channels, completion),
                           "critique")
              /\ failed' = (called /\ completion.raised)
              /\ prompted' = IF called THEN <<generation_inputs(channels)>>
                             ELSE <<>>
              /\ generated' = IF called /\ ~completion.raised
                              THEN <<completion.value>> ELSE generated
              /\ calls' = IF called
                          THEN [calls EXCEPT !.generation = @ + 1] ELSE calls
    /\ UNCHANGED <<query, retrieved, shown, verdicts, rationale,
                   acceptedEmpty, routed>>

\* The arguments of the critique chain.
critique_inputs(state) ==
    [question |-> state["question"],
     research_data |-> state["research_data"],
     draft_answer |-> state["draft_answer"]]

\* The critique node and the conditional edge that follows it.
Critique ==
    /\ pc = "critique"
    /\ \E critique \in {Raise} \cup {Return(c) : c \in Critiques} :
          LET called == {"question", "research_data", "draft_answer"}
                           \subseteq DOMAIN channels
              result == critique_answer_node(channels, critique)
              next == IF result.raised THEN "aborted"
                      ELSE route_workflow(Merge(channels, result.value))
          IN  /\ Superstep(result, next)
              /\ routed' = next
              /\ failed' = (called /\ critique.raised)
              /\ shown' = IF called THEN <<critique_inputs(channels)>>
                          ELSE <<>>
              /\ verdicts' = IF called /\ ~critique.raised
                             THEN Append(verdicts, critique.value.is_acceptable)
                             ELSE verdicts
              /\ rationale' = IF called /\ ~critique.raised
                              THEN <<critique.value.reflection>>
                              ELSE rationale
              /\ acceptedEmpty' =
                    \/ acceptedEmpty
                    \/ /\ called
                       /\ ~critique.raised
                       /\ critique.value.is_acceptable
                       /\ ~Truthy(channels["draft_answer"])
              /\ calls' = IF called
                          THEN [calls EXCEPT !.critique = @ + 1] ELSE calls
    /\ UNCHANGED <<query, retrieved, prompted, generated>>

\* The graph reached END: get_state(config).values is read and summarised.
Report ==
    /\ pc = END
    /\ report' = <<Summary(store[thread], thread)>>
    /\ pc' = "reported"
    /\ UNCHANGED <<store, channels, thread, node, runs, calls, loaded, failed,
                   query, retrieved, prompted, generated, shown, verdicts,
                   rationale, acceptedEmpty, routed>>

Next ==
    \/ \E typed \in Inputs : Start(typed)
    \/ Research
    \/ Generate
    \/ Critique
    \/ Report

Spec == Init /\ [][Next]_vars

\* Every node and the report run to completion once entered (the calls are
\* synchronous); only starting another run is left to the user.
Running == Research \/ Generate \/ Critique \/ Report
FairSpec == Spec /\ WF_vars(Running)

\* ---------------------------------------------- the nodes on any QAState
\* The graph is a function of the QAState it is handed: here a node is
\* entered on any state of the schema, not only on those a run reaches.
Optional(key, values) == {EmptyDict} \cup {key :> v : v \in values}
AnyStates ==
    {q @@ n @@ r @@ f @@ d @@ a :
        q \in {"question" :> x : x \in Questions},
        n \in Optional("retry_count", 0..max_retries),
        r \in Optional("research_data",
                       {JoinResults(x, 1) : x \in SearchResults}),
        f \in Optional("reflection", Reflections),
        d \in Optional("draft_answer", Drafts),
        a \in Optional("final_answer", Drafts)}

NodeInit ==
    /\ channels \in AnyStates
    /\ thread = thread_id_of(channels["question"])
    /\ store = [t \in ThreadIds |->
                  IF t = thread THEN channels ELSE EmptyDict]
    /\ pc \in {"research", "generate", "critique"}
    /\ node = ""
    /\ runs = 1
    /\ calls = NoCalls
    /\ loaded = EmptyDict
    /\ failed = FALSE
    /\ query = <<>>
    /\ retrieved = <<>>
    /\ prompted = <<>>
    /\ generated = <<>>
    /\ shown = <<>>
    /\ verdicts = <<>>
    /\ rationale = <<>>
    /\ acceptedEmpty = FALSE
    /\ routed = "research"
    /\ report = <<>>

NodeNext == Research \/ Generate \/ Critique \/ Report
NodeSpec == NodeInit /\ [][NodeNext]_vars

\* ------------------------------------------------------------- the claims
\* The checkpoint of the current thread and what it holds.
Saved == store[thread]
RetryCount(d) == Get(d, "retry_count", 0)
FinalAnswer(d) == Get(d, "final_answer", EmptyStr)
\* A run has ended: the graph reached END or the summary was printed.
Terminated == pc \in {END, "reported"}
\* The critique node of the current cycle returned and the router was asked.
JustCritiqued == shown # <<>> /\ ~failed /\ pc \in {"research", END, "reported"}
LastVerdict == verdicts # <<>> /\ verdicts[Len(verdicts)]
AllRejected ==
    /\ Len(verdicts) = max_retries
    /\ \A i \in 1..Len(verdicts) : ~verdicts[i]

\* C1: in every run retrieval is invoked at most max_retries times, and when
\* the run terminates retry_count is at most max_retries and equals the
\* number of retrieval calls the run made.
C1_RetrievalBounded ==
    /\ calls.retrieval <= max_retries
    /\ Terminated => /\ RetryCount(Saved) <= max_retries
                     /\ calls.retrieval = RetryCount(Saved)
    /\ pc = "reported" => report[1].cycles = calls.retrieval

\* C1 witness: a run over an existing checkpoint ends at the retry ceiling.
C1_Witness ==
    /\ pc = "reported"
    /\ loaded # EmptyDict
    /\ calls.retrieval = max_retries
    /\ report[1].cycles = max_retries

\* C2: whenever the Critic accepts, whatever the draft, the run terminates
\* right after that critique step with status Accepted and the draft shown to
\* the Critic as final output.
C2_AcceptTerminates ==
    (JustCritiqued /\ LastVerdict) =>
        /\ routed = END
        /\ pc = "reported" => /\ report[1].status = Accepted
                              /\ report[1].output = shown[1].draft_answer

\* C3 as stated: after max_retries cycles that were all rejected the run is
\* reported BestEffort with retry_count = max_retries and the draft returned
\* by the last generation call as final output.
C3_Original ==
    (pc = "reported" /\ AllRejected) =>
        /\ report[1].status = BestEffort
        /\ report[1].cycles = max_retries
        /\ report[1].output = generated[1]

\* C3 as amended: after max_retries cycles that were all rejected the run is
\* reported BestEffort with retry_count = max_retries, and the final output
\* is the draft the rejection branch wrote: the refinement marker, the last
\* rationale, the previous-draft marker and the last generated draft.
C3_BestEffortRewritten ==
    (pc = "reported" /\ AllRejected) =>
        /\ report[1].status = BestEffort
        /\ report[1].cycles = max_retries
        /\ report[1].output = RefinedDraft(Saved["reflection"], generated[1])
        /\ "final_answer" \in DOMAIN Saved => ~Truthy(Saved["final_answer"])

\* C3 witness: three rejected cycles, the last on a non-empty draft with a
\* non-empty rationale.
C3_Witness ==
    /\ pc = "reported"
    /\ AllRejected
    /\ generated = << <<"d2">> >>
    /\ Saved["reflection"] = <<"r1">>

\* C4: a run over a checkpoint whose final_answer was set by an accepted run
\* makes no external call and reports that same final_answer.
C4_IdempotentResume ==
    Truthy(FinalAnswer(loaded)) =>
        /\ calls = NoCalls
        /\ pc = "reported" => report[1].output = FinalAnswer(loaded)

\* The router ended the run on its first test, after an acceptance by the
\* Critic in the last critique step of this run.
EndedByAcceptance == LastVerdict /\ Truthy(FinalAnswer(Saved))

\* C5: at the end of every run final_answer is non-empty exactly when the
\* run's loop ended because the Critic accepted the draft in that run.
C5_FinalIffAccepted ==
    pc = "reported" => (Truthy(FinalAnswer(Saved)) <=> EndedByAcceptance)

\* C6: after a critique step the router ends the run exactly when the Critic
\* accepted in that step or retry_count >= max_retries; it ends the run
\* whenever final_answer is non-empty; and a run that ends with final_answer
\* non-empty and retry_count >= max_retries is reported Accepted.
C6_RoutingPriority ==
    /\ JustCritiqued =>
          /\ routed = END <=> (LastVerdict \/ RetryCount(Saved) >= max_retries)
          /\ Truthy(FinalAnswer(Saved)) => routed = END
    /\ (/\ pc = "reported"
        /\ Truthy(FinalAnswer(Saved))
        /\ RetryCount(Saved) >= max_retries) => report[1].status = Accepted

\* C7: a run whose external calls all return reaches END, and no run makes
\* more than max_retries research, generate or critique steps.
C7_Terminates ==
    /\ [](/\ calls.retrieval <= max_retries
          /\ calls.generation <= max_retries
          /\ calls.critique <= max_retries)
    /\ (pc \in {"research", "generate", "critique"}) ~> (Terminated \/ failed)

\* C7 witness: a run that ended after max_retries cycles with mixed verdicts.
C7_Witness ==
    /\ pc = END
    /\ calls.critique = max_retries
    /\ verdicts = <<FALSE, FALSE, TRUE>>

\* C8: a node whose external call raises aborts the run and leaves every
\* checkpoint as it was; the only step after it starts a new run; and after
\* a retrieval failure on cycle 1 of a fresh thread the checkpoint holds
\* retry_count = 0 and no draft_answer.
C8_AbortKeepsCheckpoint ==
    /\ [][failed' => (pc' = "aborted" /\ store' = store)]_vars
    /\ [][failed => (runs' = runs + 1 /\ calls' = NoCalls)]_vars
    /\ []((failed /\ loaded = EmptyDict /\ calls.generation = 0) =>
            /\ "retry_count" \in DOMAIN Saved
            /\ Saved["retry_count"] = 0
            /\ "draft_answer" \notin DOMAIN Saved)

\* C8 witness: retrieval raised on cycle 1 of a fresh thread.
C8_Witness ==
    /\ failed
    /\ pc = "aborted"
    /\ loaded = EmptyDict
    /\ calls = [retrieval |-> 1, generation |-> 0, critique |-> 0]

\* C9: over the history of every thread's checkpoints, the start of a run
\* included, retry_count never decreases, and a step raises it by at most 1.
C9_RetryMonotonic ==
    [][\A t \in ThreadIds :
          /\ RetryCount(store'[t]) >= RetryCount(store[t])
          /\ RetryCount(store'[t]) <= RetryCount(store[t]) + 1]_vars

\* C10: a completed run is reported Accepted exactly when final_answer is
\* non-empty, BestEffort exactly when it is not and the retry ceiling was
\* reached, with the last draft_answer as output, and Empty only when
\* neither field is populated, which no completed run shows.
C10_StatusReport ==
    pc = "reported" =>
        /\ report[1].status = Accepted <=> Truthy(FinalAnswer(Saved))
        /\ report[1].status = BestEffort <=>
              /\ ~Truthy(FinalAnswer(Saved))
              /\ RetryCount(Saved) >= max_retries
        /\ report[1].status = BestEffort =>
              report[1].output = Saved["draft_answer"]
        /\ report[1].status = Empty =>
              {"final_answer", "draft_answer"} \cap DOMAIN Saved = {}
        /\ report[1].status # Empty

\* The first acceptance of the run is the verdict just given.
FirstAcceptNow ==
    /\ LastVerdict
    /\ \A i \in 1..(Len(verdicts) - 1) : ~verdicts[i]

\* C11: on a fresh thread, when the Critic rejects on cycles 1..k-1 and first
\* accepts on cycle k, the run ends there with retry_count = k, status
\* Accepted and exactly k retrieval, k generation and k critique calls.
C11_AcceptOnCycleK ==
    (loaded = EmptyDict /\ JustCritiqued /\ FirstAcceptNow) =>
        /\ routed = END
        /\ RetryCount(Saved) = Len(verdicts)
        /\ calls = [retrieval |-> Len(verdicts), generation |-> Len(verdicts),
                    critique |-> Len(verdicts)]
        /\ pc = "reported" => /\ report[1].status = Accepted
                              /\ report[1].cycles = Len(verdicts)

\* C12: the generate step on a state without research_data raises: it makes
\* no generation call, writes no draft_answer and no checkpoint, and the
\* exception ends the run.
C12_GenerateNeedsResearch ==
    [][(pc = "generate" /\ "research_data" \notin DOMAIN channels) =>
          /\ pc' = "aborted"
          /\ channels' = channels
          /\ store' = store
          /\ calls' = calls
          /\ generated' = generated
          /\ report' = <<>>]_vars

\* C12 witness: the generate step has raised on a state without
\* research_data and without draft_answer.
C12_Witness ==
    /\ pc = "aborted"
    /\ node = "generate"
    /\ ~failed
    /\ calls = NoCalls
    /\ {"research_data", "draft_answer"} \cap DOMAIN channels = {}

\* The keys of QAState, and the keys the node about to run may write: the
\* critique node's depend on the verdict it obtains in this step.
Keys == {"question", "research_data", "reflection", "retry_count",
         "draft_answer", "final_answer"}
AcceptsInStep == verdicts' # verdicts /\ verdicts'[Len(verdicts')]
OwnedKeys ==
    IF pc = "research" THEN {"research_data", "retry_count"}
    ELSE IF pc = "generate" THEN {"draft_answer"}
    ELSE IF AcceptsInStep THEN {"reflection", "final_answer"}
    ELSE {"reflection", "draft_answer"}
\* Key k is present or absent in d2 as in d1, with the same value.
SameEntry(d1, d2, k) ==
    /\ k \in DOMAIN d2 <=> k \in DOMAIN d1
    /\ k \in DOMAIN d1 => d2[k] = d1[k]

\* What a node step may do to the state.
NodeFrame ==
    pc \in {"research", "generate", "critique"} =>
        /\ \A k \in Keys \ OwnedKeys :
              /\ SameEntry(channels, channels', k)
              /\ SameEntry(store[thread], store'[thread], k)
        /\ pc' # "aborted" => /\ OwnedKeys \subseteq DOMAIN channels'
                              /\ store'[thread] = channels'
        /\ \A t \in ThreadIds \ {thread} : store'[t] = store[t]

\* C13: a node step changes only the keys that node owns, in the channels
\* and in the checkpoint, and writes all of them when it returns; question
\* is never changed and no other thread's checkpoint is touched.
C13_NodesWriteOwnKeys == [][NodeFrame]_vars

\* C13 witness: the critique node rejected a draft on a state that held a
\* final_answer, which is still there.
C13_Witness ==
    /\ node = "critique"
    /\ verdicts = <<FALSE>>
    /\ "final_answer" \in DOMAIN channels
    /\ channels["final_answer"] = <<"d1">>
    /\ channels["draft_answer"] = RefinedDraft(channels["reflection"], <<"d2">>)

\* Where the run stands agrees with the node that ran last and with the
\* number of calls made so far.
NodeOrder ==
    /\ pc = "research" =>
          /\ node \in {"", "critique"}
          /\ node = "" <=> calls = NoCalls
          /\ calls.retrieval = calls.generation
          /\ calls.generation = calls.critique
    /\ pc = "generate" =>
          /\ node = "research"
          /\ calls.retrieval = calls.generation + 1
          /\ calls.generation = calls.critique
    /\ pc = "critique" =>
          /\ node = "generate"
          /\ calls.retrieval = calls.generation
          /\ calls.generation = calls.critique + 1
    /\ Terminated =>
          /\ node = "critique"
          /\ calls.retrieval = calls.generation
          /\ calls.generation = calls.critique
          /\ calls.critique >= 1

\* A step entered at most one node, and after END the only steps are the
\* summary, which runs no node and writes no checkpoint, and a new run.
OneNodePerStep ==
    /\ runs' = runs =>
          calls'.retrieval + calls'.generation + calls'.critique
             <= calls.retrieval + calls.generation + calls.critique + 1
    /\ runs' # runs => (pc' = "research" /\ node' = "" /\ calls' = NoCalls)
    /\ Terminated =>
          \/ runs' = runs + 1
          \/ calls' = calls /\ node' = node /\ store' = store /\ pc' = "reported"

\* C14: every run starts with research; research is followed by generate,
\* generate by critique, critique by research or END; one node runs per
\* step and none after END.
C14_NodeOrder == []NodeOrder /\ [][OneNodePerStep]_vars

\* C14 witness: the router looped back to research for the second time.
C14_Witness ==
    /\ pc = "research"
    /\ node = "critique"
    /\ calls = [retrieval |-> 2, generation |-> 2, critique |-> 2]

\* The generate node runs in a cycle that follows a rejection of this run.
GenerateAfterRejection ==
    /\ pc = "generate"
    /\ verdicts # <<>>
    /\ ~verdicts[Len(verdicts)]
    /\ prompted' # <<>>

\* C15: after a rejection the rewritten draft_answer is one of the inputs of
\* the next generation call.
C15_RewrittenDraftPrompted ==
    [][GenerateAfterRejection =>
          \E k \in DOMAIN prompted'[1] :
              prompted'[1][k] = channels["draft_answer"]]_vars

\* String t occurs in string s.
Contains(s, t) ==
    \E i \in 1..(Len(s) - Len(t) + 1) : SubSeq(s, i, i + Len(t) - 1) = t

\* The critique node obtains a rejection in this step.
RejectsInStep ==
    pc = "critique" /\ verdicts' # verdicts /\ ~verdicts'[Len(verdicts')]

\* What the rejection branch writes.
RejectionWrites ==
    RejectsInStep =>
        /\ channels'["reflection"] = rationale'[1]
        /\ channels'["draft_answer"] =
              <<"Refinement needed based on critique: ">> \o rationale'[1]
              \o <<"\n\nPrevious Draft:\n">> \o channels["draft_answer"]
        /\ SameEntry(channels, channels', "final_answer")
        /\ store'[thread] = channels'

\* A run that ended at the retry ceiling on a rejection reports the rewritten
\* draft, which holds the rationale of the last cycle.
CeilingOutput ==
    (/\ pc = "reported"
     /\ RetryCount(Saved) >= max_retries
     /\ verdicts # <<>>
     /\ ~verdicts[Len(verdicts)]) =>
        /\ report[1].output = Saved["draft_answer"]
        /\ Contains(report[1].output, rationale[1])
        /\ Contains(report[1].output, generated[1])

\* C16: on a rejection the critique step sets reflection to the rationale,
\* replaces draft_answer by the refinement marker, the rationale, the
\* previous-draft marker and the draft just critiqued, and leaves
\* final_answer alone; the output of a run that ends at the retry ceiling
\* with a rejection contains the rationale of the last cycle.
C16_RejectionRewrites == [][RejectionWrites]_vars /\ []CeilingOutput

\* C16 witness: a run reported at the ceiling after a last rejection with a
\* non-empty rationale of a non-empty draft.
C16_Witness ==
    /\ pc = "reported"
    /\ RetryCount(Saved) = max_retries
    /\ verdicts # <<>>
    /\ ~verdicts[Len(verdicts)]
    /\ rationale = << <<"r1">> >>
    /\ generated = << <<"d1">> >>
    /\ loaded # EmptyDict

\* C17: the research step queries with the question itself exactly when
\* reflection is empty or absent, and otherwise with the refined query built
\* from reflection and question; the first retrieval of a run on a fresh
\* thread uses the question verbatim, and a retrieval that follows a
\* rejection with a non-empty rationale carries that rationale.
C17_QueryRefined ==
    (node = "research" /\ query # <<>>) =>
        LET reflection == Get(channels, "reflection", EmptyStr)
            question == channels["question"]
        IN  /\ query[1] = question <=> reflection = EmptyStr
            /\ reflection # EmptyStr =>
                  query[1] = <<"Based on this critique: '">> \o reflection
                             \o <<"', refine the search query for: ">>
                             \o question
            /\ (loaded = EmptyDict /\ calls.retrieval = 1) =>
                  query[1] = question
            /\ (/\ verdicts # <<>>
                /\ ~verdicts[Len(verdicts)]
                /\ rationale[1] # EmptyStr) =>
                  /\ query[1] # question
                  /\ Contains(query[1], rationale[1])
                  /\ Contains(query[1], question)

\* C17 witness: the retrieval of cycle 2 after a rejection with rationale r1.
C17_Witness ==
    /\ node = "research"
    /\ calls.retrieval = 2
    /\ verdicts = <<FALSE>>
    /\ rationale = << <<"r1">> >>
    /\ query = << <<"Based on this critique: '", "r1",
                    "', refine the search query for: ", "q1">> >>

\* A step leaves every non-empty stored final_answer as it is.
FinalAnswerKept ==
    \A t \in ThreadIds :
        Truthy(FinalAnswer(store[t])) =>
            FinalAnswer(store'[t]) = FinalAnswer(store[t])

\* C18: final_answer is written only by the acceptance branch of the
\* critique step, and once a thread's final_answer is set no later step and
\* no later run on the same thread changes or clears it.
C18_FinalAnswerWriteOnce ==
    [][/\ FinalAnswerKept
       /\ (\E t \in ThreadIds :
              FinalAnswer(store'[t]) # FinalAnswer(store[t])) => AcceptsInStep]_vars

\* The draft and the research data that the critique step reads, or has just
\* read, are the outputs of this cycle's generate and research steps.
CritiqueReads(inputs) ==
    /\ generated # <<>> /\ inputs.draft_answer = generated[1]
    /\ retrieved # <<>> /\ inputs.research_data = retrieved[1]
    /\ inputs.draft_answer \in Drafts
    /\ ~Contains(inputs.draft_answer, <<"Refinement needed based on critique: ">>)

\* C19: whenever the critique step runs, research_data and draft_answer are
\* both present, the draft_answer shown to the Critic is the output of the
\* generate step of the same cycle, the research_data is the output of the
\* research step of the same cycle, and the draft shown is never one
\* rewritten by an earlier rejection.
C19_CriticSeesCycleOutputs ==
    /\ pc = "critique" =>
          /\ {"research_data", "draft_answer"} \subseteq DOMAIN channels
          /\ CritiqueReads(critique_inputs(channels))
    /\ node = "critique" =>
          /\ shown # <<>>
          /\ CritiqueReads(shown[1])

\* C19 witness: the critique step of cycle 2 ran after a rejection had
\* rewritten draft_answer, on a draft and research data that differ from
\* those of cycle 1.
C19_Witness ==
    /\ node = "critique"
    /\ calls.critique = 2
    /\ verdicts[1] = FALSE
    /\ shown # <<>>
    /\ shown[1].draft_answer = <<"d2">>
    /\ shown[1].research_data # <<>>

\* The Critic has just accepted a draft that is the empty string.
EmptyAcceptedNow ==
    JustCritiqued /\ LastVerdict /\ shown[1].draft_answer = EmptyStr

====
